---- MODULE Spec2Model ----
(***************************************************************************)
(* Plan REST API over a key-value store: normalized entity storage and the *)
(* composite-ETag precondition engine (PlanController over redisClient).   *)
(* Every request is a process; it is suspended only at a store call, so    *)
(* one step of a process is one store call followed by the handler's local *)
(* code up to its next store call (or its response).                       *)
(***************************************************************************)
EXTENDS Integers, Sequences, FiniteSets, Bags, TLC

\* ---------------------------------------------------------------- bounds
MaxReqs  == 3       \* requests issued in one behaviour
MaxFails == 1       \* store calls that throw in one behaviour
NumVals  == 2       \* distinct contents an entity of one id may take
MaxEtags == 3       \* descendant tokens folded into one composite

Procs == {1, 2}

\* ------------------------------------------------------------ namespaces
NS == [plan |-> "plan", planservice |-> "planservice",
       service |-> "service", membercostshare |-> "membercostshare"]

k(ns, id) == <<ns, id>>

\* ------------------------------------------------------------ documents
PlanIds  == {"p1", "p2"}
ChildIds == {"a", "b"}

\* null (or an absent member) of an object-valued field: objectId is the
\* empty string, which JavaScript treats as falsy like null.
NullLeaf  == [objectId |-> "", objectType |-> "", v |-> 0]
Leaf(t, i, v) == [objectId |-> i, objectType |-> t, v |-> v]
Svc(i, v) == Leaf("service", i, v)
Mcs(i, v) == Leaf("membercostshare", i, v)
NullEntry == [objectId |-> "", linkedService |-> NullLeaf,
              planserviceCostShares |-> NullLeaf]
Entry(i, s, m) == [objectId |-> i, linkedService |-> s,
                   planserviceCostShares |-> m]

ScalarFields == {"_org", "objectType", "planType", "creationDate"}
Undefined == "undefined"
Null      == "null"

\* planSchema: the values each scalar root field admits.
SchemaScalar(f) ==
  CASE f = "_org"         -> {"example.com"}
    [] f = "objectType"   -> {"plan"}
    [] f = "planType"     -> {"inNetwork", "outOfNetwork"}
    [] f = "creationDate" -> {"12-12-2017"}

Scalars(t) == [f \in ScalarFields |->
                 CASE f = "_org"         -> "example.com"
                   [] f = "objectType"   -> "plan"
                   [] f = "planType"     -> t
                   [] f = "creationDate" -> "12-12-2017"]

\* A request body: a plan document (POST, PUT) or a merge patch (PATCH).
\* hasLps says whether linkedPlanServices is an array in the body.
Body(id, sc, pcs, hasLps, lps) ==
  [objectId |-> id, sc |-> sc, planCostShares |-> pcs,
   hasLps |-> hasLps, linkedPlanServices |-> lps]

NoBody == Body("", [f \in ScalarFields |-> Undefined], NullLeaf, FALSE, <<>>)

\* --------------------------------------------------------------- hashing
\* crypto md5 / JSON.stringify / JSON.parse: the hash is taken as
\* collision-free, so a digest is modelled by the text it was taken of.
Stringify(x) == [json |-> x]
Parse(s)     == s.json
md5(s)       == [md5 |-> s]

generateETag(data) == md5(Stringify(data))

\* The descendant tokens joined in the order they were collected.
SeqToBag_Unsorted(s) == s

RECURSIVE SeqToBag(_)
SeqToBag(s) == IF s = <<>> THEN EmptyBag
               ELSE SetToBag({Head(s)}) (+) SeqToBag(Tail(s))

\* childEtags.sort().join('|'): the sorted list is the multiset of tokens.
computeCompositePlanETag(planRefDoc, childEtags) ==
  md5(<<Stringify(planRefDoc), SeqToBag(childEtags)>>)

\* ----------------------------------------------------------- merge patch
\* JSON values as applyMergePatch sees them: null, a number, an array
\* (never looked into), or an object, a function from its keys to values.
NoMembers == [x \in {} |-> 0]
JNull   == [t |-> "null", v |-> 0, m |-> NoMembers]
JNum(n) == [t |-> "num", v |-> n, m |-> NoMembers]
JArr(n) == [t |-> "arr", v |-> n, m |-> NoMembers]
JObj(m) == [t |-> "obj", v |-> 0, m |-> m]

\* isObj: truthy, typeof 'object', not an array.
isObj(x) == x.t = "obj"

\* Object.entries(patch): the keys of the patch, each once.
KeyOrder == <<"a", "b", "x", "y", "z">>
InObject(key, obj) == key \in DOMAIN obj.m
Entries(obj) == SelectSeq(KeyOrder, LAMBDA key : InObject(key, obj))

\* `delete out[k]` and `out[k] = v` on the copy `out`.
Delete(out, key) == [x \in DOMAIN out \ {key} |-> out[x]]
Assign(out, key, v) ==
  [x \in DOMAIN out \cup {key} |-> IF x = key THEN v ELSE out[x]]

\* A merge that adds a number of the patch to the number it finds.
RECURSIVE applyMergePatch_Add(_, _)
RECURSIVE MergeLoop_Add(_, _, _)
MergeLoop_Add(out, patch, keys) ==
  IF keys = <<>> THEN out
  ELSE LET key == Head(keys)
           v   == patch.m[key]
       IN MergeLoop_Add(
            IF v = JNull THEN Delete(out, key)
            ELSE IF isObj(v) /\ key \in DOMAIN out /\ isObj(out[key])
            THEN Assign(out, key, applyMergePatch_Add(out[key], v))
            ELSE IF v.t = "num" /\ key \in DOMAIN out /\ out[key].t = "num"
            THEN Assign(out, key, JNum(out[key].v + v.v))
            ELSE Assign(out, key, v),
            patch, Tail(keys))

applyMergePatch_Add(target, patch) ==
  IF ~isObj(patch) THEN patch
  ELSE JObj(MergeLoop_Add(IF isObj(target) THEN target.m ELSE NoMembers,
                          patch, Entries(patch)))

\* A merge whose result starts empty instead of as a copy of the target.
RECURSIVE applyMergePatch_FromEmpty(_, _)
RECURSIVE MergeLoop_FromEmpty(_, _, _, _)
MergeLoop_FromEmpty(out, tgt, patch, keys) ==
  IF keys = <<>> THEN out
  ELSE LET key == Head(keys)
           v   == patch.m[key]
       IN MergeLoop_FromEmpty(
            IF v = JNull THEN Delete(out, key)
            ELSE IF isObj(v) /\ key \in DOMAIN tgt /\ isObj(tgt[key])
            THEN Assign(out, key, applyMergePatch_FromEmpty(tgt[key], v))
            ELSE Assign(out, key, v),
            tgt, patch, Tail(keys))

applyMergePatch_FromEmpty(target, patch) ==
  IF ~isObj(patch) THEN patch
  ELSE JObj(MergeLoop_FromEmpty(NoMembers,
                                IF isObj(target) THEN target.m ELSE NoMembers,
                                patch, Entries(patch)))

\* applyMergePatch: `out` starts as a shallow copy of the target (of {}
\* when the target is not an object) and the loop visits the entries of
\* the patch: null deletes, an object met by an object recurses, anything
\* else is assigned as it stands.
RECURSIVE applyMergePatch(_, _)
RECURSIVE MergeLoop(_, _, _)
MergeLoop(out, patch, keys) ==
  IF keys = <<>> THEN out
  ELSE LET key == Head(keys)
           v   == patch.m[key]
       IN MergeLoop(
            IF v = JNull THEN Delete(out, key)
            ELSE IF isObj(v) /\ key \in DOMAIN out /\ isObj(out[key])
            THEN Assign(out, key, applyMergePatch(out[key], v))
            ELSE Assign(out, key, v),
            patch, Tail(keys))

applyMergePatch(target, patch) ==
  IF ~isObj(patch) THEN patch
  ELSE JObj(MergeLoop(IF isObj(target) THEN target.m ELSE NoMembers,
                      patch, Entries(patch)))

\* ----------------------------------------------------------------- store
\* redisClient: a hash {data, etag} per key; a key with no hash is absent.
\* A put whose token is taken of the key together with the content.
setData_KeyedToken(s, key, data) ==
  [x \in DOMAIN s \cup {key} |->
     IF x = key THEN [data |-> Stringify(data),
                      etag |-> generateETag(<<key, data>>)]
     ELSE s[x]]

\* A put that keeps what the key already holds.
setData_IfAbsent(s, key, data) ==
  IF key \in DOMAIN s THEN s
  ELSE [x \in DOMAIN s \cup {key} |->
          IF x = key THEN [data |-> Stringify(data), etag |-> generateETag(data)]
          ELSE s[x]]

setData(s, key, data) ==
  [x \in DOMAIN s \cup {key} |->
     IF x = key THEN [data |-> Stringify(data), etag |-> generateETag(data)]
     ELSE s[x]]

Has(s, key)     == key \in DOMAIN s
getData(s, key) == [data |-> Parse(s[key].data), etag |-> s[key].etag]
\* A delete that also removes every key that is not a plan reference.
deleteData_Cascade(s, key) ==
  [x \in {y \in DOMAIN s \ {key} : y[1] = "plan"} |-> s[x]]

\* A delete that reports success and removes nothing.
deleteData_Kept(s, key) == s

deleteData(s, key) == [x \in DOMAIN s \ {key} |-> s[x]]

\* -------------------------------------------------------------- validator
IsLeaf(x, t) ==
  /\ DOMAIN x = {"objectId", "objectType", "v"}
  /\ x.objectId # "" /\ x.objectType = t /\ x.v > 0

\* ajv against planSchema: required members present and well typed.
validate(d) ==
  /\ d.objectId # ""
  /\ \A f \in ScalarFields : d.sc[f] \in SchemaScalar(f)
  /\ IsLeaf(d.planCostShares, "membercostshare")
  /\ d.hasLps
  /\ \A i \in 1..Len(d.linkedPlanServices) :
       LET e == d.linkedPlanServices[i] IN
         /\ e.objectId # ""
         /\ IsLeaf(e.linkedService, "service")
         /\ IsLeaf(e.planserviceCostShares, "membercostshare")

\* A structural check that lets every document pass.
validateNestedStructure_Lax(d) == TRUE

\* planservice objectIds are pairwise distinct among siblings.
validateNestedStructure(d) ==
  \A i, j \in 1..Len(d.linkedPlanServices) :
     (i # j /\ d.linkedPlanServices[i].objectId # "")
       => d.linkedPlanServices[i].objectId # d.linkedPlanServices[j].objectId

completeValidation(d) == validate(d) /\ validateNestedStructure(d)

\* ---------------------------------------------------------- normalization
W(ns, id, data) == [ns |-> ns, id |-> id, data |-> data]

RECURSIVE LpsWrites(_)
LpsWrites(lps) ==
  IF lps = <<>> THEN <<>>
  ELSE LET e == Head(lps) IN
       <<W(NS.planservice, e.objectId, e)>>
       \o (IF e.linkedService # NullLeaf
           THEN <<W(NS.service, e.linkedService.objectId, e.linkedService)>>
           ELSE <<>>)
       \o (IF e.planserviceCostShares # NullLeaf
           THEN <<W(NS.membercostshare, e.planserviceCostShares.objectId,
                    e.planserviceCostShares)>>
           ELSE <<>>)
       \o LpsWrites(Tail(lps))

\* A normalization that stores no linked-service entry.
writeChildEntities_RootOnly(plan) ==
  IF plan.planCostShares # NullLeaf
  THEN <<W(NS.membercostshare, plan.planCostShares.objectId, plan.planCostShares)>>
  ELSE <<>>

\* The puts of writeChildEntities, in the order it awaits them.
writeChildEntities(plan) ==
  (IF plan.planCostShares # NullLeaf
   THEN <<W(NS.membercostshare, plan.planCostShares.objectId, plan.planCostShares)>>
   ELSE <<>>)
  \o (IF plan.hasLps THEN LpsWrites(plan.linkedPlanServices) ELSE <<>>)

RECURSIVE MapIds(_)
MapIds(lps) == IF lps = <<>> THEN <<>>
               ELSE <<Head(lps).objectId>> \o MapIds(Tail(lps))

toPlanRefDoc(plan) ==
  [objectId |-> plan.objectId, sc |-> plan.sc,
   planCostSharesId |-> plan.planCostShares.objectId,
   linkedPlanServiceIds |-> IF plan.hasLps THEN MapIds(plan.linkedPlanServices)
                            ELSE <<>>]

NoRef == [objectId |-> "", sc |-> [f \in ScalarFields |-> Undefined],
          planCostSharesId |-> "", linkedPlanServiceIds |-> <<>>]

\* ------------------------------------------------------------- expansion
\* expandPlanWithEtags, one store read at a time.  stage names the read the
\* loop is suspended at; "end" is its return.
ExPush(e, mc) ==
  [e EXCEPT !.lps = Append(@, [e.cur EXCEPT !.linkedService = e.svc,
                                           !.planserviceCostShares = mc]),
            !.ids = Tail(@), !.stage = "lps",
            !.cur = NullEntry, !.svc = NullLeaf]

\* Local code between two reads: branches that await nothing are skipped.
RECURSIVE ExNorm(_)
ExNorm(e) ==
  CASE e.stage = "pcs" /\ e.pcsId = "" -> ExNorm([e EXCEPT !.stage = "lps"])
    [] e.stage = "lps" /\ e.ids = <<>> -> [e EXCEPT !.stage = "end"]
    [] e.stage = "svc" /\ e.cur.linkedService.objectId = "" ->
         ExNorm([e EXCEPT !.stage = "mc", !.svc = e.cur.linkedService])
    [] e.stage = "mc" /\ e.cur.planserviceCostShares.objectId = "" ->
         ExNorm(ExPush(e, e.cur.planserviceCostShares))
    [] OTHER -> e

NoEx == [stage |-> "end", pcsId |-> "", ids |-> <<>>, cur |-> NullEntry,
         svc |-> NullLeaf, pcs |-> NullLeaf, lps |-> <<>>, etags |-> <<>>]

ExInit(refDoc) ==
  ExNorm([NoEx EXCEPT !.stage = "pcs", !.pcsId = refDoc.planCostSharesId,
                      !.ids = refDoc.linkedPlanServiceIds])

\* The key the suspended read asks for.
ExKey(e) ==
  CASE e.stage = "pcs" -> k(NS.membercostshare, e.pcsId)
    [] e.stage = "lps" -> k(NS.planservice, Head(e.ids))
    [] e.stage = "svc" -> k(NS.service, e.cur.linkedService.objectId)
    [] e.stage = "mc"  -> k(NS.membercostshare, e.cur.planserviceCostShares.objectId)

\* A read that keeps a hole in the list for an entry it did not find.
ExRead_KeepMissing(e, s) ==
  LET key == ExKey(e)
      hit == Has(s, key)
      r   == getData(s, key)
  IN CASE e.stage = "pcs" ->
            ExNorm(IF hit THEN [e EXCEPT !.pcs = r.data, !.stage = "lps",
                                         !.etags = Append(@, r.etag)]
                   ELSE [e EXCEPT !.stage = "lps"])
       [] e.stage = "lps" ->
            ExNorm(IF hit THEN [e EXCEPT !.cur = r.data, !.stage = "svc",
                                         !.etags = Append(@, r.etag)]
                   ELSE ExPush(e, NullLeaf))
       [] e.stage = "svc" ->
            ExNorm(IF hit THEN [e EXCEPT !.svc = r.data, !.stage = "mc",
                                         !.etags = Append(@, r.etag)]
                   ELSE [e EXCEPT !.svc = e.cur.linkedService, !.stage = "mc"])
       [] e.stage = "mc" ->
            ExNorm(IF hit THEN ExPush([e EXCEPT !.etags = Append(@, r.etag)], r.data)
                   ELSE ExPush(e, e.cur.planserviceCostShares))

\* A read that keeps the copy of the service embedded in the planservice
\* entity even when the service is stored on its own.
ExRead_Embedded(e, s) ==
  LET key == ExKey(e)
      hit == Has(s, key)
      r   == getData(s, key)
  IN CASE e.stage = "pcs" ->
            ExNorm(IF hit THEN [e EXCEPT !.pcs = r.data, !.stage = "lps",
                                         !.etags = Append(@, r.etag)]
                   ELSE [e EXCEPT !.stage = "lps"])
       [] e.stage = "lps" ->
            ExNorm(IF hit THEN [e EXCEPT !.cur = r.data, !.stage = "svc",
                                         !.etags = Append(@, r.etag)]
                   ELSE [e EXCEPT !.ids = Tail(@)])
       [] e.stage = "svc" ->
            ExNorm(IF hit THEN [e EXCEPT !.svc = e.cur.linkedService, !.stage = "mc",
                                         !.etags = Append(@, r.etag)]
                   ELSE [e EXCEPT !.svc = e.cur.linkedService, !.stage = "mc"])
       [] e.stage = "mc" ->
            ExNorm(IF hit THEN ExPush([e EXCEPT !.etags = Append(@, r.etag)], r.data)
                   ELSE ExPush(e, e.cur.planserviceCostShares))

\* The read returns from store s and the loop runs on to its next read.
ExRead(e, s) ==
  LET key == ExKey(e)
      hit == Has(s, key)
      r   == getData(s, key)
  IN CASE e.stage = "pcs" ->
            ExNorm(IF hit THEN [e EXCEPT !.pcs = r.data, !.stage = "lps",
                                         !.etags = Append(@, r.etag)]
                   ELSE [e EXCEPT !.stage = "lps"])
       [] e.stage = "lps" ->
            ExNorm(IF hit THEN [e EXCEPT !.cur = r.data, !.stage = "svc",
                                         !.etags = Append(@, r.etag)]
                   ELSE [e EXCEPT !.ids = Tail(@)])
       [] e.stage = "svc" ->
            ExNorm(IF hit THEN [e EXCEPT !.svc = r.data, !.stage = "mc",
                                         !.etags = Append(@, r.etag)]
                   ELSE [e EXCEPT !.svc = e.cur.linkedService, !.stage = "mc"])
       [] e.stage = "mc" ->
            ExNorm(IF hit THEN ExPush([e EXCEPT !.etags = Append(@, r.etag)], r.data)
                   ELSE ExPush(e, e.cur.planserviceCostShares))

\* The `materialized` object expandPlanWithEtags returns.
materialized(refDoc, e) ==
  Body(refDoc.objectId, refDoc.sc, e.pcs, TRUE, e.lps)

\* A document that leaves out the cost share it did not find.
materializedMembers_Omit(refDoc, e) ==
  {"objectId", "linkedPlanServices"}
    \cup {f \in ScalarFields : refDoc.sc[f] # Undefined}
    \cup (IF e.pcs = NullLeaf THEN {} ELSE {"planCostShares"})

\* The members the `materialized` object literal has once serialized by
\* res.json: JSON.stringify drops a member whose value is undefined and
\* keeps one whose value is null. planCostShares starts as null and
\* linkedPlanServices as [], so both are always written.
materializedMembers(refDoc, e) ==
  {"objectId", "planCostShares", "linkedPlanServices"}
    \cup {f \in ScalarFields : refDoc.sc[f] # Undefined}

\* expandPlanWithEtags run to its end against one unchanging store.
RECURSIVE expandPlanWithEtags(_, _)
expandPlanWithEtags(e, s) ==
  IF e.stage = "end" THEN e ELSE expandPlanWithEtags(ExRead(e, s), s)

\* What getPlan computes for plan id when nothing else runs meanwhile.
CompositeOf(s, id) ==
  LET ref == getData(s, k(NS.plan, id))
      e   == expandPlanWithEtags(ExInit(ref.data), s)
  IN computeCompositePlanETag(ref.data, <<ref.etag>> \o e.etags)

DocumentOf(s, id) ==
  LET ref == getData(s, k(NS.plan, id))
  IN materialized(ref.data, expandPlanWithEtags(ExInit(ref.data), s))

\* --------------------------------------------------------------- headers
\* The ETag header carries the token in double quotes; If-Match and
\* If-None-Match are compared after stripping the quotes.
Quote(tok) == [quoted |-> tok]
\* A comparison that leaves the quotes on the header value.
Unquote_Kept(h) == h

Unquote(h) == h.quoted

\* ------------------------------------------------------------- a request
NoResp == [status |-> 0, error |-> "", etag |-> <<>>, body |-> NoBody]

\* The frame of one request: its inputs (verb, id, ifm, inm, createOnly,
\* body), the handler's locals, its response, and what it has done so far
\* (wrote: keys it put or deleted; changed: keys whose stored content it
\* replaced by another; refWritten: its put of the reference was served;
\* expected: the composite it compared If-Match with; had0, tok0: whether
\* the plan was stored when it arrived, and its composite then; quiet: no
\* other request changed the store while it read for its precondition;
\* prior: the slots whose request had been answered when it arrived;
\* failedAt: the store call that threw; prev: the verb, plan id and ETag of
\* the response this slot gave just before, when it carried an ETag or
\* was the 204 of a delete, and the body of its request; same0: the body
\* of the request is the document the plan materialized to when it
\* arrived).
NoPrev == [verb |-> "", id |-> "", etag |-> <<>>, body |-> NoBody]

Idle == [pc |-> "idle", verb |-> "", id |-> "", ifm |-> <<>>, inm |-> <<>>,
         createOnly |-> FALSE, body |-> NoBody,
         phase |-> "", ref |-> NoRef, refEtag |-> <<>>, ex |-> NoEx,
         wq |-> <<>>, before |-> NoBody, after |-> NoBody,
         pq |-> <<>>, existingIds |-> {}, newIdsToAppend |-> <<>>,
         resp |-> NoResp,
         wrote |-> {}, refWritten |-> FALSE, expected |-> <<>>,
         changed |-> {},
         had0 |-> FALSE, tok0 |-> <<>>, quiet |-> TRUE, prior |-> {},
         failedAt |-> <<>>, prev |-> NoPrev, same0 |-> FALSE]

\* res.status(..).header('ETag', ..).json(..): the handler returns.
Respond(l, status, error, etag, body) ==
  [Idle EXCEPT !.pc = "done", !.verb = l.verb, !.id = l.id, !.ifm = l.ifm,
               !.inm = l.inm, !.createOnly = l.createOnly, !.body = l.body,
               !.resp = [status |-> status, error |-> error,
                         etag |-> etag, body |-> body],
               !.wrote = l.wrote, !.changed = l.changed,
               !.refWritten = l.refWritten,
               !.expected = l.expected,
               !.had0 = l.had0, !.tok0 = l.tok0, !.quiet = l.quiet,
               !.prior = l.prior, !.failedAt = l.failedAt, !.prev = l.prev,
               !.same0 = l.same0]

\* requireIfMatchOr412 with the comparison left out: any token passes.
requireIfMatchOr412_NoCompare(ifm, expectedEtag) ==
  IF ifm = <<>> THEN "If-Match required" ELSE ""

\* requireIfMatchOr412 answering both rejections with one text.
requireIfMatchOr412_OneText(ifm, expectedEtag) ==
  IF ifm = <<>> \/ Unquote(ifm[1]) # expectedEtag
  THEN "Precondition Failed (stale ETag)" ELSE ""

\* requireIfMatchOr412: "" when the precondition holds, else the error text
\* of the 412 it sends.
requireIfMatchOr412(ifm, expectedEtag) ==
  IF ifm = <<>> THEN "If-Match required"
  ELSE IF Unquote(ifm[1]) # expectedEtag THEN "Precondition Failed (stale ETag)"
  ELSE ""

\* A composite folded from the reference alone.
Composite_RefOnly(l) == computeCompositePlanETag(l.ref, l.refEtag)

\* A composite that also folds in the caller's If-None-Match header.
Composite_PerRequest(l) ==
  computeCompositePlanETag(l.ref, l.refEtag \o l.ex.etags \o l.inm)

Composite(l) == computeCompositePlanETag(l.ref, l.refEtag \o l.ex.etags)

\* writeChildEntities(planData) is entered: its first put, or the put of
\* the reference when the document has no child.
BeginWrites(l, planData) ==
  LET wq == writeChildEntities(planData)
  IN [l EXCEPT !.wq = wq, !.ref = toPlanRefDoc(planData),
               !.pc = IF wq = <<>> THEN "put_ref" ELSE "wr"]

\* patchPlan, step 1: plan-level scalars.  A null or absent member of the
\* patch leaves the field as it was.
MergeScalars(before, patch) ==
  [before EXCEPT !.sc = [f \in ScalarFields |->
       IF patch.sc[f] # Undefined /\ patch.sc[f] # Null
       THEN patch.sc[f] ELSE before.sc[f]]]

\* A replace that takes any objectId in the body.
objectIdMismatch_Never(l) == FALSE

\* updatePlan: the body names an objectId other than the path's.
objectIdMismatch(l) == l.body.objectId # "" /\ l.body.objectId # l.id

RECURSIVE AfterExpand(_)

\* expandPlanWithEtags(refDoc) is called: suspended at its first read, or
\* already returned when the reference names no child.
StartExpand(l, phase) ==
  LET e  == ExInit(l.ref)
      l2 == [l EXCEPT !.ex = e, !.phase = phase, !.pc = "ex"]
  IN IF e.stage = "end" THEN AfterExpand(l2) ELSE l2

\* patchPlan: validate the final document, then copy its scalars into the
\* reference and persist it.
PatchValidate(l) ==
  IF ~completeValidation(l.after)
  THEN Respond(l, 400, "Validation failed", <<>>, NoBody)
  ELSE [l EXCEPT !.ref.sc = l.after.sc, !.pc = "put_ref"]

\* patchPlan, the rebuild loop over the ids the reference now lists.
StartRebuild(l) ==
  LET e  == ExNorm([NoEx EXCEPT !.stage = "lps", !.ids = l.ref.linkedPlanServiceIds])
      l2 == [l EXCEPT !.ex = e, !.phase = "rebuild", !.pc = "ex"]
  IN IF e.stage = "end" THEN AfterExpand(l2) ELSE l2

\* patchPlan, step 3: the loop over patch.linkedPlanServices, suspended at
\* the next store call of the entry at the head of pq.
RECURSIVE PatchLps(_, _)
PatchLps(l, at) ==
  IF l.pq = <<>>
  THEN StartRebuild([l EXCEPT
         !.ref.linkedPlanServiceIds = @ \o l.newIdsToAppend,
         !.existingIds = {}, !.newIdsToAppend = <<>>])
  ELSE LET lpsPatch == Head(l.pq) IN
    IF lpsPatch.objectId = ""
    THEN Respond(l, 400, "Validation failed", <<>>, NoBody)
    ELSE CASE at = "l_svc" ->
                IF lpsPatch.linkedService.objectId # ""
                THEN [l EXCEPT !.pc = "l_svc"] ELSE PatchLps(l, "l_mc")
           [] at = "l_mc" ->
                IF lpsPatch.planserviceCostShares.objectId # ""
                THEN [l EXCEPT !.pc = "l_mc"] ELSE PatchLps(l, "l_ps")
           [] at = "l_ps" ->
                IF lpsPatch.objectId \in l.existingIds
                THEN [l EXCEPT !.pc = "l_ps"] ELSE [l EXCEPT !.pc = "l_exists"]

\* patchPlan replacing the array: the reference keeps none of its ids.
PatchLpsStart_Replace(l) ==
  IF l.body.hasLps
  THEN PatchLps([l EXCEPT !.pq = l.body.linkedPlanServices,
                          !.ref.linkedPlanServiceIds = <<>>,
                          !.existingIds = {},
                          !.newIdsToAppend = <<>>], "l_svc")
  ELSE PatchValidate(l)

PatchLpsStart(l) ==
  IF l.body.hasLps
  THEN PatchLps([l EXCEPT !.pq = l.body.linkedPlanServices,
                          !.existingIds = {l.ref.linkedPlanServiceIds[i] :
                                i \in 1..Len(l.ref.linkedPlanServiceIds)},
                          !.newIdsToAppend = <<>>], "l_svc")
  ELSE PatchValidate(l)

\* patchPlan, step 2: planCostShares, upsert or move to a new id.
PatchPcs(l) ==
  IF l.body.planCostShares # NullLeaf
  THEN IF l.body.planCostShares.objectId = ""
       THEN Respond(l, 400, "Validation failed", <<>>, NoBody)
       ELSE LET beforePcsId == l.before.planCostShares.objectId IN
            IF beforePcsId # "" /\ l.body.planCostShares.objectId # beforePcsId
            THEN [l EXCEPT !.pc = "pcs_exists"]
            ELSE [l EXCEPT !.pc = "pcs_put"]
  ELSE PatchLpsStart(l)

\* expandPlanWithEtags has returned: the handler's code after the call.
AfterExpand(l) ==
  CASE l.verb = "GET" ->
         IF l.inm # <<>> /\ Unquote(l.inm[1]) = Composite(l)
         THEN Respond(l, 304, "", <<Quote(Composite(l))>>, NoBody)
         ELSE Respond(l, 200, "", <<Quote(Composite(l))>>, materialized(l.ref, l.ex))
    [] l.verb = "POST" ->
         Respond(l, 201, "", <<Quote(Composite(l))>>, l.body)
    [] l.verb = "PUT" /\ l.phase = "before" ->
         LET beforeComposite == Composite(l)
             err == requireIfMatchOr412(l.ifm, beforeComposite)
             l2  == [l EXCEPT !.expected = <<beforeComposite>>]
         IN IF err # "" THEN Respond(l2, 412, err, <<>>, NoBody)
            ELSE IF objectIdMismatch(l)
            THEN Respond(l2, 400, "Invalid objectId", <<>>, NoBody)
            ELSE IF ~completeValidation(l.body)
            THEN Respond(l2, 400, "Validation failed", <<>>, NoBody)
            ELSE BeginWrites(l2, l.body)
    [] l.verb = "PUT" /\ l.phase = "after" ->
         Respond(l, 200, "", <<Quote(Composite(l))>>, materialized(l.ref, l.ex))
    [] l.verb = "PATCH" /\ l.phase = "before" ->
         LET beforeComposite == Composite(l)
             err    == requireIfMatchOr412(l.ifm, beforeComposite)
             before == materialized(l.ref, l.ex)
             l2     == [l EXCEPT !.expected = <<beforeComposite>>,
                                 !.before = before,
                                 !.after = MergeScalars(before, l.body)]
         IN IF err # "" THEN Respond(l2, 412, err, <<>>, NoBody)
            ELSE PatchPcs(l2)
    [] l.verb = "PATCH" /\ l.phase = "rebuild" ->
         PatchValidate([l EXCEPT !.after.linkedPlanServices = l.ex.lps])
    [] l.verb = "PATCH" /\ l.phase = "after" ->
         Respond(l, 200, "", <<Quote(Composite(l))>>, l.after)

\* ------------------------------------------------------------ store calls
IOPcs == {"exists", "get_ref", "ex", "wr", "put_ref", "pcs_exists", "pcs_put",
          "l_svc", "l_mc", "l_exists", "l_ps", "l_ps_new", "del"}

PlanKey(l) == k(NS.plan, l.id)

\* The key and data of the put the frame is suspended at.
PutOf(l) ==
  CASE l.pc = "wr"      -> Head(l.wq)
    [] l.pc = "put_ref" -> W(NS.plan, l.id, l.ref)
    [] l.pc = "pcs_put" -> W(NS.membercostshare, l.body.planCostShares.objectId,
                             l.body.planCostShares)
    [] l.pc = "l_svc"   -> W(NS.service, Head(l.pq).linkedService.objectId,
                             Head(l.pq).linkedService)
    [] l.pc = "l_mc"    -> W(NS.membercostshare,
                             Head(l.pq).planserviceCostShares.objectId,
                             Head(l.pq).planserviceCostShares)
    [] l.pc \in {"l_ps", "l_ps_new"} ->
                           W(NS.planservice, Head(l.pq).objectId, Head(l.pq))

IsPut(l) == l.pc \in {"wr", "put_ref", "pcs_put", "l_svc", "l_mc", "l_ps", "l_ps_new"}

\* The store after the call the frame is suspended at has been served.
StoreAfter(l, s) ==
  IF IsPut(l) THEN setData(s, k(PutOf(l).ns, PutOf(l).id), PutOf(l).data)
  ELSE IF l.pc = "del" THEN deleteData(s, PlanKey(l))
  ELSE s

Wrote(l, s) ==
  LET key == k(PutOf(l).ns, PutOf(l).id) IN
  [l EXCEPT !.wrote = @ \cup {key},
            !.changed = IF Has(s, key) /\ getData(s, key).data # PutOf(l).data
                        THEN @ \cup {key} ELSE @]

\* createPlan writing whether or not the id is taken.
createPlanExists_Upsert(l, found) == BeginWrites(l, l.body)

\* createPlan after `await exists(NS.plan, planId)`.
createPlanExists(l, found) ==
  IF found THEN Respond(l, 409, "Conflict", <<>>, NoBody)
  ELSE BeginWrites(l, l.body)

\* patchPlan refusing an entry whose id another list already holds.
patchLpsExists_Conflict(l, found) ==
  IF found THEN Respond(l, 409, "Conflict", <<>>, NoBody)
  ELSE [l EXCEPT !.pc = "l_ps_new"]

\* patchPlan after `await exists(NS.planservice, lpsId)` for an id its list
\* lacks: the 409 is commented out, the entity is overwritten either way.
patchLpsExists(l, found) == [l EXCEPT !.pc = "l_ps_new"]

\* patchPlan moving the plan to a cost-share id whether or not it is taken.
patchPcsExists_Overwrite(l, found) == [l EXCEPT !.pc = "pcs_put"]

\* patchPlan after `await exists(NS.membercostshare, pcsAfter.objectId)`.
patchPcsExists(l, found) ==
  IF found THEN Respond(l, 409, "Conflict", <<>>, NoBody)
  ELSE [l EXCEPT !.pc = "pcs_put"]

\* Handlers that look at If-Match before they look for the plan.
AfterGetRef_PreconditionFirst(l, s) ==
  IF l.verb \in {"PUT", "PATCH"} /\ l.ifm = <<>>
  THEN Respond(l, 412, "If-Match required", <<>>, NoBody)
  ELSE IF ~Has(s, PlanKey(l))
  THEN Respond(l, 404, "Not Found", <<>>, NoBody)
  ELSE LET r  == getData(s, PlanKey(l))
           l2 == [l EXCEPT !.ref = r.data, !.refEtag = <<r.etag>>]
       IN IF l.verb = "DELETE" THEN [l2 EXCEPT !.pc = "del"]
          ELSE StartExpand(l2, "before")

\* getPlan, updatePlan, patchPlan, deletePlan after `await get(NS.plan,
\* planId)`: 404 when there is no reference, before anything else.
AfterGetRef(l, s) ==
  IF ~Has(s, PlanKey(l))
  THEN Respond(l, 404, "Not Found", <<>>, NoBody)
  ELSE LET r  == getData(s, PlanKey(l))
           l2 == [l EXCEPT !.ref = r.data, !.refEtag = <<r.etag>>]
       IN IF l.verb = "DELETE" THEN [l2 EXCEPT !.pc = "del"]
          ELSE StartExpand(l2, "before")

\* The frame after the call has returned and the handler has run on to its
\* next store call or to its response.
LocalAfter(l, s) ==
  CASE l.pc = "exists" ->                                  \* createPlan
         createPlanExists(l, Has(s, PlanKey(l)))
    [] l.pc = "wr" ->                                      \* writeChildEntities
         [Wrote(l, s) EXCEPT !.wq = Tail(@),
                          !.pc = IF Tail(l.wq) = <<>> THEN "put_ref" ELSE "wr"]
    [] l.pc = "put_ref" ->
         StartExpand([Wrote(l, s) EXCEPT !.refEtag = <<generateETag(l.ref)>>,
                                      !.refWritten = TRUE], "after")
    [] l.pc = "get_ref" -> AfterGetRef(l, s)
    [] l.pc = "ex" ->
         LET l2 == [l EXCEPT !.ex = ExRead(l.ex, s)]
         IN IF l2.ex.stage = "end" THEN AfterExpand(l2) ELSE l2
    [] l.pc = "pcs_exists" ->                              \* patchPlan
         patchPcsExists(l, Has(s, k(NS.membercostshare,
                                     l.body.planCostShares.objectId)))
    [] l.pc = "pcs_put" ->
         PatchLpsStart([Wrote(l, s) EXCEPT
            !.ref.planCostSharesId = l.body.planCostShares.objectId,
            !.after.planCostShares = l.body.planCostShares])
    [] l.pc = "l_svc" -> PatchLps(Wrote(l, s), "l_mc")
    [] l.pc = "l_mc"  -> PatchLps(Wrote(l, s), "l_ps")
    [] l.pc = "l_exists" ->
         patchLpsExists(l, Has(s, k(NS.planservice, Head(l.pq).objectId)))
    [] l.pc = "l_ps"  -> PatchLps([Wrote(l, s) EXCEPT !.pq = Tail(@)], "l_svc")
    [] l.pc = "l_ps_new" ->
         PatchLps([Wrote(l, s) EXCEPT
            !.pq = Tail(@),
            !.newIdsToAppend = Append(@, Head(l.pq).objectId),
            !.existingIds = @ \cup {Head(l.pq).objectId}], "l_svc")
    [] l.pc = "del" ->                                     \* deletePlan
         IF Has(s, PlanKey(l))
         THEN Respond([l EXCEPT !.wrote = @ \cup {PlanKey(l)}], 204, "", <<>>, NoBody)
         ELSE Respond(l, 500, "Internal server error", <<>>, NoBody)

\* A catch block that swallows the error and answers success.
Thrown_Swallowed(l) ==
  Respond([l EXCEPT !.failedAt = <<l.pc, l.phase>>], 200, "", <<>>, NoBody)

\* The awaited store call throws: the handler's catch answers 500.
Thrown(l) ==
  Respond([l EXCEPT !.failedAt = <<l.pc, l.phase>>], 500, "Internal server error", <<>>, NoBody)

\* A frame is reading for its precondition (or for its GET).
InPre(l) == l.pc \in {"exists", "get_ref"} \/ (l.pc = "ex" /\ l.phase = "before")

\* A token no plan ever has.
BogusToken == computeCompositePlanETag(NoRef, <<>>)

\* ----------------------------------------------------------------- state
\* store: the keys redis holds; proc: the frame of the request each slot
\* serves; nreq, nfail: requests issued and store calls thrown so far;
\* conc: whether two requests may be in flight together; call: the
\* arguments and results of a call of applyMergePatch.
VARIABLES store, proc, nreq, nfail, conc, call
vars == <<store, proc, nreq, nfail, conc, call>>

NoCall == [pc |-> "none", args |-> <<JNull, JNull>>, target |-> JNull,
           patch |-> JNull, out |-> JNull, again |-> JNull]

EmptyStore == [x \in {} |-> 0]

Slots == IF conc THEN Procs ELSE {1}

\* ---------------------------------------------------------------- inputs
Vals == 1..NumVals

\* A linked-service entry i whose service descriptor and cost-share carry
\* the entry's own id in their namespaces.
Ent(i, v) == Entry(i, Svc(i, v), Mcs(i, v))

\* A schema-valid entry whose cost share is the root's, and an object that
\* no schema admits: an entry shape whose members are a cost share and
\* that entry. A PATCH body may carry any JSON.
EntShared == Entry("b", Svc("b", 1), Mcs("a", 1))
EntAlien  == Entry("b", Mcs("a", 1), EntShared)

Doc(id, t, pcs, lps) == Body(id, Scalars(t), pcs, TRUE, lps)

\* Plan documents sent with POST and PUT.  For p1: no entry, one entry, an
\* entry whose cost-share shares the id of the plan's own, two entries, two
\* entries of one id, and a planType outside the schema's enum.
Docs(id) ==
  {Doc(id, "inNetwork", Mcs("a", v), <<>>) : v \in Vals}
  \cup {Doc(id, "inNetwork", Mcs("a", 1), <<Ent("b", 1)>>)}
  \cup (IF conc THEN {} ELSE
        {Doc(id, "inNetwork", Mcs("a", 2), <<Ent("b", 2)>>)})
  \cup (IF id = "p1" /\ ~conc
        THEN {Doc(id, "inNetwork", Mcs("a", 1), <<Ent("a", 2)>>),
              Doc(id, "inNetwork", Mcs("a", 1), <<Ent("a", 1), Ent("b", 1)>>),
              Doc(id, "inNetwork", Mcs("a", 1), <<Ent("b", 1), Ent("b", 2)>>),
              Doc(id, "inNetwork", Mcs("a", 1), <<EntShared>>),
              Doc(id, "bogus", Mcs("a", 1), <<Ent("b", 1)>>)}
        ELSE {})

NoScalars == [f \in ScalarFields |-> Undefined]
Patch(sc, pcs, hasLps, lps) == Body("", sc, pcs, hasLps, lps)
SetField(f, x) == [NoScalars EXCEPT ![f] = x]

\* Merge patches sent with PATCH: one aspect each, and two whose result
\* fails validation although they carry a child.
Patches ==
  {Patch(NoScalars, Mcs("a", 2), FALSE, <<>>),
   Patch(NoScalars, NullLeaf, TRUE, <<Ent("b", 2)>>)}
  \cup (IF conc THEN {} ELSE
   {Patch(SetField("planType", "outOfNetwork"), NullLeaf, FALSE, <<>>),
    Patch(SetField("planType", Null), NullLeaf, FALSE, <<>>),
    Patch(SetField("planType", "bogus"), NullLeaf, FALSE, <<>>),
    Patch(NoScalars, Mcs("b", 1), FALSE, <<>>),
    Patch(NoScalars, NullLeaf, TRUE, <<Ent("a", 1)>>),
    Patch(NoScalars, NullLeaf, TRUE, <<Ent("b", 1), Ent("b", 2)>>),
    Patch(SetField("planType", "bogus"), Mcs("a", 2), FALSE, <<>>),
    Patch(SetField("planType", "bogus"), NullLeaf, TRUE, <<Ent("b", 2)>>),
    Patch(NoScalars, NullLeaf, TRUE, <<Entry("a", EntAlien, NullLeaf)>>),
    Patch(NoScalars, NullLeaf, TRUE, <<EntAlien>>)})

\* Conditional tokens a caller can hold for plan id: none, the plan's
\* current one, those the last responses returned, and a made-up one.
Tokens(id) ==
  (IF Has(store, k(NS.plan, id)) THEN {<<Quote(CompositeOf(store, id))>>} ELSE {})
    \cup {proc[q].resp.etag : q \in Procs}
    \cup (IF conc THEN {} ELSE {<<>>, <<Quote(BogusToken)>>})

Ids == IF conc THEN {"p1"} ELSE PlanIds

Req(verb, id, ifm, inm, createOnly, body) ==
  [verb |-> verb, id |-> id, ifm |-> ifm, inm |-> inm,
   createOnly |-> createOnly, body |-> body]

Requests ==
  UNION {
    {Req("POST", id, <<>>, <<>>, FALSE, d) : d \in Docs(id)}
    \cup {Req("POST", id, <<>>, <<>>, TRUE, d) :
            d \in IF conc THEN {} ELSE {Doc(id, "inNetwork", Mcs("a", 1), <<>>)}}
    \cup {Req("GET", id, <<>>, tok, FALSE, NoBody) :
            tok \in IF conc THEN {<<>>} ELSE Tokens(id)}
    \cup {Req("PUT", id, tok, <<>>, FALSE, d) : d \in Docs(id), tok \in Tokens(id)}
    \cup {Req("PUT", id, tok, <<>>, FALSE, d) :
            d \in IF conc \/ id = "p2" THEN {}
                  ELSE {Doc("p2", "inNetwork", Mcs("a", 1), <<>>)},
            tok \in Tokens(id)}
    \cup {Req("PUT", id, <<Quote(CompositeOf(store, id))>>, <<>>, FALSE, d) :
            d \in IF ~conc /\ Has(store, k(NS.plan, id))
                  THEN {DocumentOf(store, id)} ELSE {}}
    \cup {Req("PATCH", id, tok, <<>>, FALSE, b) :
            b \in IF id = "p1" THEN Patches ELSE {}, tok \in Tokens(id)}
    \cup {Req("DELETE", id, tok, <<>>, FALSE, NoBody) :
            tok \in IF conc THEN {<<>>} ELSE Tokens(id)}
    : id \in Ids}

InitWith(c) == /\ store = EmptyStore
               /\ proc = [p \in Procs |-> Idle]
               /\ nreq = 0
               /\ nfail = 0
               /\ conc = c
               /\ call = NoCall

Init     == InitWith(FALSE)
InitConc == InitWith(TRUE)

\* The handler is entered with request r and runs to its first store call.
\* createPlan validates the body before it touches the store.
Enter(p, r) ==
  LET l == [Idle EXCEPT !.verb = r.verb, !.id = r.id, !.ifm = r.ifm,
                        !.inm = r.inm, !.createOnly = r.createOnly,
                        !.body = r.body,
                        !.had0 = Has(store, k(NS.plan, r.id)),
                        !.tok0 = IF Has(store, k(NS.plan, r.id))
                                 THEN <<CompositeOf(store, r.id)>> ELSE <<>>,
                        !.prior = {q \in Procs \ {p} : proc[q].pc = "done"},
                        !.prev = IF ~conc /\ proc[p].pc = "done"
                                    /\ (proc[p].resp.etag # <<>>
                                          \/ proc[p].resp.status = 204)
                                 THEN [verb |-> proc[p].verb, id |-> proc[p].id,
                                       etag |-> proc[p].resp.etag,
                                       body |-> proc[p].body]
                                 ELSE NoPrev,
                        !.same0 = /\ Has(store, k(NS.plan, r.id))
                                  /\ r.body = DocumentOf(store, r.id)]
  IN IF r.verb = "POST"
     THEN IF ~completeValidation(r.body)
          THEN Respond(l, 400, "Validation failed", <<>>, NoBody)
          ELSE [l EXCEPT !.pc = "exists"]
     ELSE [l EXCEPT !.pc = "get_ref"]

\* A request arrives at a free slot.
Start(p) ==
  /\ p \in Slots
  /\ proc[p].pc \in {"idle", "done"}
  /\ nreq < MaxReqs
  /\ \E r \in Requests :
       proc' = [q \in Procs |->
                  IF q = p THEN Enter(p, r)
                  ELSE [proc[q] EXCEPT !.prior = @ \ {p}]]
  /\ nreq' = nreq + 1
  /\ UNCHANGED <<store, nfail, conc, call>>

\* The store serves the call request p awaits, and p runs on.
Step(p) ==
  /\ proc[p].pc \in IOPcs
  /\ store' = StoreAfter(proc[p], store)
  /\ proc' = [q \in Procs |->
                IF q = p THEN LocalAfter(proc[p], store)
                ELSE IF store' # store /\ InPre(proc[q])
                     THEN [proc[q] EXCEPT !.quiet = FALSE]
                     ELSE proc[q]]
  /\ UNCHANGED <<nreq, nfail, conc, call>>

\* The store call request p awaits throws instead.
Fail(p) ==
  /\ proc[p].pc \in IOPcs
  /\ nfail < MaxFails
  /\ nfail' = nfail + 1
  /\ proc' = [proc EXCEPT ![p] = Thrown(proc[p])]
  /\ UNCHANGED <<store, nreq, conc, call>>

Next == \E p \in Procs : Start(p) \/ Step(p) \/ Fail(p)

\* Requests served one after the other.
Spec == Init /\ [][Next]_vars

\* Two requests in flight together.
NextConc == \E p \in Procs : Start(p) \/ Step(p)
SpecConc == InitConc /\ [][NextConc]_vars

\* ------------------------------------------- the fold, on its own inputs
\* computeCompositePlanETag applied to a reference and a list of descendant
\* tokens drawn from small sets, and again after two neighbours of the list
\* have changed places (every permutation is a chain of such exchanges).
FoldRefs  == {toPlanRefDoc(Doc("p1", t, Mcs("a", 1), <<Ent("b", 1)>>)) :
                t \in {"inNetwork", "outOfNetwork"}}
FoldEtags == {generateETag(Mcs("a", v)) : v \in Vals} \cup {generateETag(Svc("b", 1))}
FoldSeqs  == UNION {[1..n -> FoldEtags] : n \in 0..MaxEtags}

FoldFrame(refDoc, childEtags) ==
  [Idle EXCEPT !.pc = "fold", !.ref = refDoc, !.ex.etags = childEtags,
               !.expected = <<computeCompositePlanETag(refDoc, childEtags)>>]

InitFold == /\ store = EmptyStore
            /\ \E refDoc \in FoldRefs, childEtags \in FoldSeqs :
                 proc = [p \in Procs |-> IF p = 1 THEN FoldFrame(refDoc, childEtags)
                                         ELSE Idle]
            /\ nreq = 0
            /\ nfail = 0
            /\ conc = FALSE
            /\ call = NoCall

Exchange(s, i) == [j \in 1..Len(s) |-> IF j = i THEN s[i + 1]
                                       ELSE IF j = i + 1 THEN s[i] ELSE s[j]]

Permute(p) ==
  /\ proc[p].pc = "fold"
  /\ \E i \in 1..(Len(proc[p].ex.etags) - 1) :
       LET childEtags == Exchange(proc[p].ex.etags, i) IN
         proc' = [proc EXCEPT ![p].ex.etags = childEtags,
                              ![p].resp.etag =
                                 <<Quote(computeCompositePlanETag(proc[p].ref, childEtags))>>]
  /\ UNCHANGED <<store, nreq, nfail, conc, call>>

NextFold == \E p \in Procs : Permute(p)
SpecFold == InitFold /\ [][NextFold]_vars

\* --------------------------------------- applyMergePatch, on its own inputs
\* Targets and patches two objects deep. A target holds numbers and
\* objects; a patch may also hold null, and may be no object at all.
Objects(keys, values) == UNION {[ks -> values] : ks \in SUBSET keys}

InnerKeys == {"x", "y", "z"}
OuterKeys == {"a", "b"}

InnerTargets == {JObj(m) : m \in Objects(InnerKeys, {JNum(1)})}
MergeTargets == {JObj(m) : m \in Objects(OuterKeys, {JNum(1)} \cup InnerTargets)}
                  \cup {JNum(1), JNull}

InnerPatches == {JObj(m) : m \in Objects(InnerKeys, {JNull, JNum(2)})}
MergePatches == {JObj(m) : m \in Objects(OuterKeys, {JNull, JNum(2)} \cup InnerPatches)}
                  \cup {JNull, JNum(2), JArr(1)}

InitMerge == /\ store = EmptyStore
             /\ proc = [p \in Procs |-> Idle]
             /\ nreq = 0
             /\ nfail = 0
             /\ conc = FALSE
             /\ \E target \in MergeTargets, patch \in MergePatches :
                  call = [pc |-> "call", args |-> <<target, patch>>,
                          target |-> target, patch |-> patch,
                          out |-> JNull, again |-> JNull]

\* applyMergePatch(target, patch) is called. The function works on the
\* copy `out`, so the caller's target and patch are as they were.
Merge ==
  /\ call.pc = "call"
  /\ call' = [call EXCEPT !.out = applyMergePatch(call.target, call.patch),
                          !.pc = "again"]
  /\ UNCHANGED <<store, proc, nreq, nfail, conc>>

\* The same patch is applied to the result.
MergeAgain ==
  /\ call.pc = "again"
  /\ call' = [call EXCEPT !.again = applyMergePatch(call.out, call.patch),
                          !.pc = "ret"]
  /\ UNCHANGED <<store, proc, nreq, nfail, conc>>

NextMerge == Merge \/ MergeAgain
SpecMerge == InitMerge /\ [][NextMerge]_vars

\* ------------------------------------------- a store that has lost children
\* No handler deletes a child entity, so a reference whose children are
\* missing arises only when keys are removed from redis by other means.
\* The store starts as plan p1 stored whole, less any set of its child
\* keys, and one request is served against it.
RECURSIVE PutAll(_, _)
PutAll(s, wq) ==
  IF wq = <<>> THEN s
  ELSE PutAll(setData(s, k(Head(wq).ns, Head(wq).id), Head(wq).data), Tail(wq))

Stored(d) ==
  setData(PutAll(EmptyStore, writeChildEntities(d)),
          k(NS.plan, d.objectId), toPlanRefDoc(d))

LossDocs == {Doc("p1", "inNetwork", Mcs("a", 1), <<Ent("b", 1), Ent("c", 1)>>),
             Doc("p1", "inNetwork", Mcs("a", 1), <<Ent("c", 1), Ent("b", 1)>>)}

InitLoss == /\ \E d \in LossDocs :
                 \E gone \in SUBSET (DOMAIN Stored(d) \ {k(NS.plan, d.objectId)}) :
                   store = [x \in DOMAIN Stored(d) \ gone |-> Stored(d)[x]]
            /\ proc = [p \in Procs |-> Idle]
            /\ nreq = MaxReqs - 1
            /\ nfail = 0
            /\ conc = FALSE
            /\ call = NoCall

NextLoss == \E p \in Procs : Start(p) \/ Step(p)
SpecLoss == InitLoss /\ [][NextLoss]_vars

\* Plan p1 stored whole, then some of the entities nested in its entries
\* rewritten under their own keys (the planservice entities keep the copies
\* they were written with) and some of them lost; one request is served.
CanonFresh == {<<>>,
               <<W(NS.service, "b", Svc("b", 2))>>,
               <<W(NS.membercostshare, "c", Mcs("c", 2))>>,
               <<W(NS.service, "b", Svc("b", 2)),
                 W(NS.membercostshare, "c", Mcs("c", 2))>>}

NestedKeys == {k(NS.service, "b"), k(NS.membercostshare, "b"),
               k(NS.service, "c"), k(NS.membercostshare, "c")}

InitCanon == /\ \E d \in LossDocs : \E fresh \in CanonFresh :
                  \E gone \in SUBSET NestedKeys :
                    LET s == PutAll(Stored(d), fresh)
                    IN store = [x \in DOMAIN s \ gone |-> s[x]]
             /\ proc = [p \in Procs |-> Idle]
             /\ nreq = MaxReqs - 1
             /\ nfail = 0
             /\ conc = FALSE
             /\ call = NoCall

NextCanon == \E p \in Procs : Start(p) \/ Step(p)
SpecCanon == InitCanon /\ [][NextCanon]_vars

\* ================================================================ claims
Done(p)    == proc[p].pc = "done"
IsWrite(l) == l.verb \in {"PUT", "PATCH"}
NoThrow(l) == l.failedAt = <<>>
StaleTok(l) == l.ifm # <<>> /\ l.tok0 # <<>> /\ Unquote(l.ifm[1]) # l.tok0[1]

\* C1: a PUT or PATCH of a stored plan whose If-Match differs from the
\* plan's composite token is answered 412 (stale) and has put nothing.
C1_StaleTokenRejected ==
  \A p \in Procs : LET l == proc[p] IN
    (Done(p) /\ IsWrite(l) /\ l.had0 /\ l.quiet /\ NoThrow(l) /\ StaleTok(l))
      => /\ l.resp.status = 412
         /\ l.resp.error = "Precondition Failed (stale ETag)"
         /\ l.wrote = {}

C1_Witness ==
  \E p \in Procs : LET l == proc[p] IN
    /\ Done(p) /\ l.verb = "PATCH" /\ l.had0 /\ StaleTok(l)
    /\ l.body.planCostShares # NullLeaf
    /\ l.resp.status = 412 /\ l.wrote = {}

\* C2: a PUT or PATCH of a stored plan that carries no If-Match is rejected
\* and has put nothing, and its answer differs from the one a stale token
\* gets in the same state.
C2_MissingTokenRejected ==
  \A p \in Procs : LET l == proc[p] IN
    (Done(p) /\ IsWrite(l) /\ l.had0 /\ l.quiet /\ NoThrow(l) /\ l.ifm = <<>>)
      => /\ l.resp.status = 412
         /\ l.wrote = {}
         /\ l.resp.error # ""
         /\ l.resp.error # requireIfMatchOr412(<<Quote(BogusToken)>>, l.tok0[1])

C2_Witness ==
  \E p \in Procs : LET l == proc[p] IN
    /\ Done(p) /\ l.verb = "PUT" /\ l.had0 /\ l.ifm = <<>>
    /\ completeValidation(l.body)
    /\ l.resp.status = 412 /\ l.resp.error = "If-Match required"

\* C3: a DELETE of a stored plan whose If-Match is missing or differs from
\* the plan's composite token is rejected and the reference stays stored.
C3_DeleteIsConditional ==
  \A p \in Procs : LET l == proc[p] IN
    (Done(p) /\ l.verb = "DELETE" /\ l.had0 /\ l.quiet /\ NoThrow(l)
       /\ (l.ifm = <<>> \/ StaleTok(l)))
      => /\ l.resp.status \in {412, 428}
         /\ Has(store, PlanKey(l))

\* C4: a POST for an id whose reference is stored is rejected, create-only
\* header or not, valid document or not, and has put nothing.
C4_CreateCollisionRejected ==
  \A p \in Procs : LET l == proc[p] IN
    (l.verb = "POST" /\ l.had0 /\ l.quiet)
      => /\ l.wrote = {}
         /\ Done(p) => l.resp.status \in {400, 409, 500}
         /\ (Done(p) /\ NoThrow(l)) => l.resp.status \in {400, 409}

C4_Witness ==
  \E p \in Procs : LET l == proc[p] IN
    /\ Done(p) /\ l.verb = "POST" /\ l.had0 /\ l.createOnly
    /\ completeValidation(l.body)
    /\ l.resp.status = 409 /\ l.wrote = {}
    /\ DocumentOf(store, l.id) # l.body
Overlap(p, q) == p # q /\ p \notin proc[q].prior /\ q \notin proc[p].prior

\* C5: two writers of one plan present the same token T; the first is
\* answered 200 and leaves the plan with another composite token before the
\* second arrives: the second is answered 412 and has put nothing.
C5_SecondWriterRejected ==
  \A p \in Procs : \A q \in proc[p].prior :
    LET l == proc[p]  w == proc[q] IN
      (/\ Done(p) /\ IsWrite(l) /\ IsWrite(w) /\ l.id = w.id
       /\ l.ifm # <<>> /\ l.ifm = w.ifm
       /\ w.resp.status = 200 /\ w.resp.etag # w.ifm
       /\ l.tok0 = <<Unquote(w.resp.etag[1])>>
       /\ l.quiet)
        => l.resp.status = 412 /\ l.wrote = {}

C5_Witness ==
  \E p \in Procs : \E q \in proc[p].prior :
    LET l == proc[p]  w == proc[q] IN
      /\ Done(p) /\ IsWrite(l) /\ IsWrite(w) /\ l.id = w.id
      /\ l.ifm # <<>> /\ l.ifm = w.ifm
      /\ w.resp.status = 200 /\ w.resp.etag # w.ifm
      /\ l.tok0 = <<Unquote(w.resp.etag[1])>>
      /\ l.resp.status = 412 /\ l.wrote = {}

\* C6: the precondition check and the puts are separate store calls: every
\* writer answered 200 compared its token with the composite it had read
\* itself, so two overlapping writers may both pass on the same token.
C6_CheckedAgainstOwnRead ==
  \A p \in Procs : LET l == proc[p] IN
    (Done(p) /\ IsWrite(l) /\ l.resp.status = 200)
      => l.ifm # <<>> /\ l.expected = <<Unquote(l.ifm[1])>>

\* The lost update: both writers of the same token are answered 200 with
\* different content, and the stored document is not what one was told.
C6_Witness ==
  \E p, q \in Procs :
    LET l == proc[p]  w == proc[q] IN
      /\ Overlap(p, q) /\ Done(p) /\ Done(q)
      /\ IsWrite(l) /\ IsWrite(w) /\ l.id = w.id
      /\ l.ifm # <<>> /\ l.ifm = w.ifm /\ l.body # w.body
      /\ l.resp.status = 200 /\ w.resp.status = 200
      /\ l.expected = w.expected
      /\ l.changed # {} /\ w.changed # {}
      /\ Has(store, PlanKey(l))
      /\ DocumentOf(store, l.id) # l.resp.body

\* C7: of two overlapping POSTs for one id that was not stored when either
\* arrived, at most one is answered 201.
C7_OneCreateWins ==
  \A p, q \in Procs :
    LET l == proc[p]  w == proc[q] IN
      (/\ Overlap(p, q) /\ Done(p) /\ Done(q)
       /\ l.verb = "POST" /\ w.verb = "POST" /\ l.id = w.id
       /\ ~l.had0 /\ ~w.had0)
        => ~(l.resp.status = 201 /\ w.resp.status = 201)
\* C8: a request answered 400 has put nothing.
C8_RejectedWritesNothing ==
  \A p \in Procs : LET l == proc[p] IN
    (Done(p) /\ l.verb \in {"POST", "PUT", "PATCH"} /\ l.resp.status = 400)
      => l.wrote = {}

\* C9 as stated: a create, replace or patch in which a store call threw is
\* answered with an error and has not put the plan reference.
C9_FailureLeavesReference ==
  \A p \in Procs : LET l == proc[p] IN
    (Done(p) /\ l.verb \in {"POST", "PUT", "PATCH"} /\ ~NoThrow(l))
      => l.resp.status >= 400 /\ ~l.refWritten

\* C9: a create, replace or patch in which a store call threw is answered
\* 500, and has put the plan reference only if the call that threw is a
\* read of the expansion that follows the reference's put.
C9_FailureIsReported ==
  \A p \in Procs : LET l == proc[p] IN
    (Done(p) /\ l.verb \in {"POST", "PUT", "PATCH"} /\ ~NoThrow(l))
      => /\ l.resp.status = 500
         /\ l.refWritten => l.failedAt = <<"ex", "after">>

C9_Witness ==
  \E p \in Procs : LET l == proc[p] IN
    /\ Done(p) /\ l.verb = "PUT" /\ ~NoThrow(l) /\ l.failedAt[1] = "wr"
    /\ l.wrote # {} /\ ~l.refWritten /\ l.resp.status = 500

\* The keys expandPlanWithEtags asks for, from state e on, against store s.
RECURSIVE ReadKeysFrom(_, _)
ReadKeysFrom(e, s) ==
  IF e.stage = "end" THEN {}
  ELSE {ExKey(e)} \cup ReadKeysFrom(ExRead(e, s), s)

ReadKeys(s, id) == ReadKeysFrom(ExInit(getData(s, k(NS.plan, id)).data), s)

\* C10: when a store call replaces, with different content, an entity read
\* while materializing a stored plan, and leaves the plan's reference as it
\* is, the plan's composite token after the call differs from the one before.
C10_CompositeSensitive ==
  [][\A id \in PlanIds : \A key \in DOMAIN store :
       (/\ Has(store, k(NS.plan, id)) /\ Has(store', k(NS.plan, id))
        /\ store'[k(NS.plan, id)] = store[k(NS.plan, id)]
        /\ key \in ReadKeys(store, id)
        /\ Has(store', key) /\ store'[key] # store[key])
         => CompositeOf(store', id) # CompositeOf(store, id)]_vars

GotPlan(l) == l.verb = "GET" /\ l.resp.status \in {200, 304}

\* C11: a GET has put or deleted nothing and leaves the plan's composite as
\* it found it, and a GET that follows a GET of the same plan, with no
\* store write between the two, returns the same composite token.
C11_CompositeStable ==
  \A p \in Procs : LET l == proc[p] IN
    (Done(p) /\ GotPlan(l) /\ l.quiet)
      => /\ l.wrote = {} /\ l.changed = {}
         /\ l.tok0 = <<CompositeOf(store, l.id)>>
         /\ (l.prev.verb = "GET" /\ l.prev.id = l.id) => l.resp.etag = l.prev.etag

C11_Witness ==
  \E p \in Procs : LET l == proc[p] IN
    /\ Done(p) /\ GotPlan(l) /\ l.resp.status = 200
    /\ l.prev.verb = "GET" /\ l.prev.id = l.id /\ l.prev.etag = l.resp.etag
    /\ l.inm # <<>>
    /\ l.resp.body.linkedPlanServices # <<>>

\* C12: whenever the composite token of a stored plan is the same before
\* and after a store call, the document a GET materializes is the same too.
C12_TokenIdentifiesDocument ==
  [][\A id \in PlanIds :
       (/\ Has(store, k(NS.plan, id)) /\ Has(store', k(NS.plan, id))
        /\ CompositeOf(store', id) = CompositeOf(store, id))
         => DocumentOf(store', id) = DocumentOf(store, id)]_vars

\* C13: for a fixed reference, computeCompositePlanETag gives the same
\* token for the descendant tokens in whatever order they are listed.
C13_OrderIndependent ==
  \A p \in Procs : LET l == proc[p] IN
    (l.pc = "fold" /\ l.resp.etag # <<>>)
      => Unquote(l.resp.etag[1]) = l.expected[1]

C13_Witness ==
  \E p \in Procs : LET l == proc[p] IN
    /\ l.pc = "fold" /\ l.resp.etag # <<>>
    /\ Len(l.ex.etags) = 3
    /\ Cardinality({l.ex.etags[i] : i \in 1..3}) = 3
    /\ l.ex.etags[1] = generateETag(Svc("b", 1))

AfterWriteOf(l) == l.prev.verb \in {"POST", "PUT", "PATCH"} /\ l.prev.id = l.id

\* C14: the ETag of a successful POST, PUT or PATCH is the composite of the
\* plan as stored; the GET served next returns that ETag, and a PUT or
\* PATCH served next with that ETag as If-Match is not answered 412.
C14_WriteTokenIsCurrent ==
  \A p \in Procs : LET l == proc[p] IN
    /\ (Done(p) /\ l.verb \in {"POST", "PUT", "PATCH"} /\ l.resp.status \in {200, 201})
         => l.resp.etag = <<Quote(CompositeOf(store, l.id))>>
    /\ (Done(p) /\ NoThrow(l) /\ AfterWriteOf(l) /\ l.verb = "GET")
         => GotPlan(l) /\ l.resp.etag = l.prev.etag
    /\ (Done(p) /\ NoThrow(l) /\ AfterWriteOf(l) /\ IsWrite(l) /\ l.ifm = l.prev.etag)
         => l.resp.status # 412 /\ l.expected = <<Unquote(l.ifm[1])>>

C14_Witness ==
  \E p \in Procs : LET l == proc[p] IN
    /\ Done(p) /\ l.verb = "PATCH" /\ l.prev.verb = "PUT" /\ l.prev.id = l.id
    /\ l.ifm = l.prev.etag /\ l.resp.status = 200
    /\ l.resp.etag # l.prev.etag

\* C15: a GET of a stored plan whose If-None-Match is the plan's composite
\* token is answered 304 without a body; with another token or none it is
\* answered 200 with the materialized document; both carry the composite
\* token as ETag and neither has put or deleted anything.
C15_ConditionalRead ==
  \A p \in Procs : LET l == proc[p] IN
    (Done(p) /\ l.verb = "GET" /\ l.had0 /\ l.quiet /\ NoThrow(l))
      => /\ l.resp.etag = <<Quote(l.tok0[1])>>
         /\ l.wrote = {} /\ l.changed = {}
         /\ IF l.inm # <<>> /\ l.inm[1] = Quote(l.tok0[1])
            THEN l.resp.status = 304 /\ l.resp.body = NoBody
            ELSE l.resp.status = 200 /\ l.resp.body = DocumentOf(store, l.id)

C15_Witness ==
  \E p \in Procs : LET l == proc[p] IN
    /\ Done(p) /\ l.verb = "GET" /\ l.had0
    /\ l.inm = <<Quote(l.tok0[1])>>
    /\ l.resp.status = 304 /\ l.resp.body = NoBody
    /\ DocumentOf(store, l.id).linkedPlanServices # <<>>

\* C16: a document the validator accepted, once stored by a create or a
\* replace, is materialized again exactly as it was sent: every scalar,
\* the cost-share object and the entries in their original order.
C16_RoundTrip ==
  \A p \in Procs : LET l == proc[p] IN
    (Done(p) /\ l.verb \in {"POST", "PUT"} /\ l.resp.status \in {200, 201}
       /\ completeValidation(l.body))
      => DocumentOf(store, l.id) = l.body

\* The ids of a list of entries, and those of them that are not in `seen`,
\* each once, in the order of their first occurrence.
EntryIds(lps) == [i \in 1..Len(lps) |-> lps[i].objectId]

RECURSIVE FirstNew(_, _)
FirstNew(ids, seen) ==
  IF ids = <<>> THEN <<>>
  ELSE IF Head(ids) \in seen THEN FirstNew(Tail(ids), seen)
  ELSE <<Head(ids)>> \o FirstNew(Tail(ids), seen \cup {Head(ids)})

InSeq(x, s) == \E i \in 1..Len(s) : s[i] = x

\* C17: when a patch stores the plan reference, the reference lists the ids
\* L it listed before, in their order, followed by the ids of the patch
\* that were not in L in the order of their first occurrence; and the patch
\* has put no planservice entity of L whose id it does not carry.
C17_PatchUpsertsEntries ==
  [][\A p \in Procs : LET l == proc[p] IN
       (/\ l.verb = "PATCH" /\ l.pc = "put_ref"
        /\ store' = StoreAfter(l, store) /\ proc'[p].failedAt = <<>>
        /\ proc'[p].pc # "put_ref")
         => LET L     == getData(store, PlanKey(l)).data.linkedPlanServiceIds
                given == EntryIds(l.body.linkedPlanServices)
                Lset  == {L[i] : i \in 1..Len(L)}
            IN /\ getData(store', PlanKey(l)).data.linkedPlanServiceIds
                    = L \o FirstNew(given, Lset)
               /\ \A id \in Lset :
                    ~InSeq(id, given) => k(NS.planservice, id) \notin l.wrote]_vars

C17_Witness ==
  \E p \in Procs : LET l == proc[p] IN
    /\ Done(p) /\ l.verb = "PATCH" /\ l.resp.status = 200
    /\ l.body.linkedPlanServices = <<Ent("a", 1)>>
    /\ EntryIds(l.resp.body.linkedPlanServices) = <<"b", "a">>
    /\ getData(store, PlanKey(l)).data.linkedPlanServiceIds = <<"b", "a">>
    /\ k(NS.planservice, "b") \notin l.wrote

\* The served call of request p has returned (it did not throw).
Served(p) == proc'[p] # proc[p] /\ proc'[p].failedAt = <<>>

C19_NullDeletesField ==
  \A p \in Procs : LET l == proc[p] IN
    (Done(p) /\ l.verb = "PATCH" /\ NoThrow(l)
       /\ \E f \in ScalarFields : l.body.sc[f] = Null)
      => l.resp.status # 200

\* C20: a GET of a plan whose reference is stored is answered 200 or 304
\* whichever of the children the reference names are stored; the document
\* of a 200 lists the entries of exactly those ids of the reference whose
\* planservice entity is stored, in the reference's order, and carries the
\* stored cost share or none.
C20_DanglingReadSucceeds ==
  \A p \in Procs : LET l == proc[p] IN
    (Done(p) /\ l.verb = "GET" /\ l.had0 /\ NoThrow(l))
      => LET refDoc == getData(store, PlanKey(l)).data
             Resolves(id) == Has(store, k(NS.planservice, id))
             pcsKey == k(NS.membercostshare, refDoc.planCostSharesId)
         IN /\ l.resp.status \in {200, 304}
            /\ l.resp.error = ""
            /\ l.resp.status = 200
                 => /\ EntryIds(l.resp.body.linkedPlanServices)
                         = SelectSeq(refDoc.linkedPlanServiceIds, Resolves)
                    /\ l.resp.body.planCostShares
                         = IF Has(store, pcsKey) THEN getData(store, pcsKey).data
                           ELSE NullLeaf

C20_Witness ==
  \E p \in Procs : LET l == proc[p] IN
    /\ Done(p) /\ l.verb = "GET" /\ l.resp.status = 200
    /\ getData(store, PlanKey(l)).data.linkedPlanServiceIds = <<"b", "c">>
    /\ EntryIds(l.resp.body.linkedPlanServices) = <<"c">>
    /\ l.resp.body.planCostShares = NullLeaf
    /\ ~Has(store, k(NS.service, "c"))
    /\ l.resp.body.linkedPlanServices[1].linkedService = Svc("c", 1)

\* The plan-level cost share the reference of request l names is not stored.
PcsLost(l) ==
  LET refDoc == getData(store, PlanKey(l)).data
  IN /\ refDoc.planCostSharesId # ""
     /\ ~Has(store, k(NS.membercostshare, refDoc.planCostSharesId))

MembersOf(l) ==
  LET refDoc == getData(store, PlanKey(l)).data
  IN materializedMembers(refDoc, expandPlanWithEtags(ExInit(refDoc), store))

C22_OnlyReferenceRemoved ==
  [][/\ \A key \in DOMAIN store \ DOMAIN store' :
          /\ key[1] = NS.plan
          /\ \E p \in Procs :
               /\ proc[p].verb = "DELETE" /\ proc[p].pc = "del"
               /\ key = PlanKey(proc[p])
               /\ proc'[p].pc = "done" /\ proc'[p].resp.status = 204
          /\ DOMAIN store' = DOMAIN store \ {key}
          /\ \A x \in DOMAIN store' : store'[x] = store[x]
     /\ \A p \in Procs :
          (proc[p].verb = "DELETE" /\ proc'[p].pc = "done"
             /\ proc[p].pc # "done" /\ proc'[p].resp.status = 204)
            => /\ PlanKey(proc[p]) \in DOMAIN store
               /\ DOMAIN store' = DOMAIN store \ {PlanKey(proc[p])}]_vars

C22_Witness ==
  \E p \in Procs : LET l == proc[p] IN
    /\ Done(p) /\ l.verb = "DELETE" /\ l.resp.status = 204
    /\ ~Has(store, PlanKey(l))
    /\ {k(NS.membercostshare, "a"), k(NS.planservice, "b"),
        k(NS.service, "b"), k(NS.membercostshare, "b")} \subseteq DOMAIN store

\* The request of frame l is the one served next after a delete of the
\* same plan was answered 204.
AfterDeleteOf(l) == l.prev.verb = "DELETE" /\ l.prev.id = l.id

C23_WitnessCreate ==
  \E p \in Procs : LET l == proc[p] IN
    /\ Done(p) /\ AfterDeleteOf(l) /\ l.verb = "POST" /\ l.resp.status = 201
    /\ Has(store, PlanKey(l))

\* C24: a GET, replace, patch or delete that arrives when its plan has no
\* stored reference is answered 404 Not Found and has put and deleted
\* nothing, whether it carries no token, a made-up one or one a response
\* once returned.
C24_MissingPlanNotFound ==
  \A p \in Procs : LET l == proc[p] IN
    (Done(p) /\ l.verb \in {"GET", "PUT", "PATCH", "DELETE"}
       /\ ~l.had0 /\ NoThrow(l))
      => /\ l.resp.status = 404 /\ l.resp.error = "Not Found"
         /\ l.wrote = {} /\ l.expected = <<>>

C24_Witness ==
  \E p \in Procs : LET l == proc[p] IN
    /\ Done(p) /\ l.verb = "PATCH" /\ ~l.had0
    /\ l.ifm = <<>> /\ l.body.planCostShares # NullLeaf
    /\ l.resp.status = 404 /\ l.wrote = {}
    /\ ~Has(store, k(NS.membercostshare, l.body.planCostShares.objectId))

\* The merge patch of RFC 7396: a patch that is no object is the result;
\* otherwise each null member removes its key and every other member is
\* merged into the target's value of that key, an empty object standing
\* for a target value that is absent or no object.
RECURSIVE MergePatch7396(_, _)
MergePatch7396(target, patch) ==
  IF ~isObj(patch) THEN patch
  ELSE LET tgt  == IF isObj(target) THEN target.m ELSE NoMembers
           kept == {key \in DOMAIN patch.m : patch.m[key] # JNull}
           gone == DOMAIN patch.m \ kept
       IN JObj([key \in (DOMAIN tgt \ gone) \cup kept |->
                  IF key \in kept
                  THEN MergePatch7396(IF key \in DOMAIN tgt THEN tgt[key] ELSE JNull,
                                      patch.m[key])
                  ELSE tgt[key]])

RECURSIVE HasNull(_)
HasNull(x) == x = JNull \/ \E key \in DOMAIN x.m : HasNull(x.m[key])

\* C25: applyMergePatch(target, patch) is the RFC 7396 merge of the patch
\* into the target, and when the target holds no null and the patch is an
\* object the result holds none either.
C25_MergeIsRfc7396 ==
  call.pc \in {"again", "ret"}
    => /\ call.out = MergePatch7396(call.args[1], call.args[2])
       /\ (isObj(call.args[2]) /\ ~HasNull(call.args[1])) => ~HasNull(call.out)

\* Every null of patch p points at a key that target t has: a null member
\* names a key of t, and an object member either meets an object of t and
\* the same holds inside, or holds no null at all.
RECURSIVE NullsPointAtPresent(_, _)
NullsPointAtPresent(t, p) ==
  isObj(p) =>
    \A key \in DOMAIN p.m :
      LET v == p.m[key] IN
        /\ v = JNull => (isObj(t) /\ key \in DOMAIN t.m)
        /\ isObj(v) =>
             IF isObj(t) /\ key \in DOMAIN t.m /\ isObj(t.m[key])
             THEN NullsPointAtPresent(t.m[key], v)
             ELSE ~HasNull(v)

\* C26: applying a patch to the result of applying it gives that result
\* again, whenever every null of the patch points at a key the target has.
C26_MergeIdempotent ==
  (call.pc = "ret" /\ NullsPointAtPresent(call.args[1], call.args[2]))
    => call.again = call.out

\* The case of C26 with a deletion, a recursion and an added object.
C26_Witness ==
  /\ call.pc = "ret"
  /\ NullsPointAtPresent(call.args[1], call.args[2])
  /\ call.args[1] = JObj([a |-> JNum(1), b |-> JObj([x |-> JNum(1), y |-> JNum(1)])])
  /\ call.args[2] = JObj([a |-> JObj([z |-> JNum(2)]),
                          b |-> JObj([y |-> JNull, z |-> JNum(2)])])
  /\ call.out = JObj([a |-> JObj([z |-> JNum(2)]),
                      b |-> JObj([x |-> JNum(1), z |-> JNum(2)])])
  /\ call.again = call.out

\* Idempotence without the condition on nulls.
C26_AlwaysIdempotent == call.pc = "ret" => call.again = call.out

C28_TokenIsContentHash ==
  /\ \A key \in DOMAIN store :
       store[key].etag = generateETag(Parse(store[key].data))
  /\ \A key1, key2 \in DOMAIN store :
       store[key1].data = store[key2].data => store[key1].etag = store[key2].etag
  /\ \A p \in Procs : LET l == proc[p] IN
       (~conc /\ l.pc = "ex" /\ l.phase = "after")
         => /\ Has(store, PlanKey(l))
            /\ l.refEtag = <<store[PlanKey(l)].etag>>
            /\ getData(store, PlanKey(l)).data = l.ref

C28_Witness ==
  \E key1, key2 \in DOMAIN store :
    /\ key1[1] = NS.service /\ key2[1] = NS.membercostshare
    /\ key1[2] = key2[2]
    /\ store[key1].data = store[key2].data
    /\ store[key1].etag = store[key2].etag
    /\ \E p \in Procs : proc[p].pc = "ex" /\ proc[p].phase = "after"

\* C29: a put that is served leaves its key holding the value put and that
\* value's token, whatever the key held, and changes no other entry; a del
\* removes its key and nothing else; every other call leaves the store as
\* it is. So a key holds what was last put under it since it was last
\* deleted, and entries of one id under two kinds do not affect each other.
C29_StoreContract ==
  [][\A p \in Procs : LET l == proc[p] IN
       (l.pc \in IOPcs /\ Served(p))
         => IF IsPut(l)
            THEN LET key == k(PutOf(l).ns, PutOf(l).id) IN
                 /\ Has(store', key)
                 /\ getData(store', key) = [data |-> PutOf(l).data,
                                            etag |-> generateETag(PutOf(l).data)]
                 /\ DOMAIN store' = DOMAIN store \cup {key}
                 /\ \A x \in DOMAIN store \ {key} : store'[x] = store[x]
            ELSE IF l.pc = "del"
            THEN /\ DOMAIN store' = DOMAIN store \ {PlanKey(l)}
                 /\ \A x \in DOMAIN store' : store'[x] = store[x]
            ELSE store' = store]_vars

C29_Witness ==
  \E p \in Procs : LET l == proc[p] IN
    /\ Done(p) /\ l.verb = "PUT" /\ l.resp.status = 200
    /\ l.body.linkedPlanServices = <<Ent("b", 2)>>
    /\ k(NS.membercostshare, "b") \in l.changed
    /\ getData(store, k(NS.planservice, "b")).data = Ent("b", 2)
    /\ getData(store, k(NS.service, "b")).data = Svc("b", 2)
    /\ getData(store, k(NS.membercostshare, "b")).data = Mcs("b", 2)

Distinct(ids) == \A i, j \in 1..Len(ids) : i # j => ids[i] # ids[j]

\* C30: the id list of every stored plan reference has pairwise distinct
\* ids; a create or replace whose document has two entries of one id is
\* answered 400 (or an earlier refusal) and never 200 or 201; and a patch
\* is never answered 200 with an id twice in the document it returns.
C30_SiblingIdsDistinct ==
  /\ \A id \in PlanIds :
       Has(store, k(NS.plan, id))
         => Distinct(getData(store, k(NS.plan, id)).data.linkedPlanServiceIds)
  /\ \A p \in Procs : LET l == proc[p] IN
       /\ (Done(p) /\ l.verb \in {"POST", "PUT"} /\ NoThrow(l)
             /\ ~Distinct(EntryIds(l.body.linkedPlanServices)))
            => /\ l.resp.status \in {400, 404, 412}
               /\ l.wrote = {}
               /\ l.verb = "POST" => l.resp.status = 400
       /\ (Done(p) /\ l.verb = "PATCH" /\ l.resp.status = 200)
            => Distinct(EntryIds(l.resp.body.linkedPlanServices))

C30_Witness ==
  \E p \in Procs : LET l == proc[p] IN
    /\ Done(p) /\ l.verb = "PATCH" /\ l.resp.status = 200
    /\ l.body.linkedPlanServices = <<Ent("b", 1), Ent("b", 2)>>
    /\ l.prev.verb = "POST" /\ l.prev.id = l.id
    /\ l.prev.etag = <<Quote(CompositeOf(
                         Stored(Doc("p1", "inNetwork", Mcs("a", 1), <<>>)), "p1"))>>
    /\ getData(store, PlanKey(l)).data.linkedPlanServiceIds = <<"b">>
    /\ getData(store, k(NS.planservice, "b")).data = Ent("b", 2)

\* Every id the reference stored for plan id names is stored: the cost
\* share under membercostshare, each entry under planservice.
Resolved(s, id) ==
  LET refDoc == getData(s, k(NS.plan, id)).data
  IN /\ refDoc.planCostSharesId # ""
          => Has(s, k(NS.membercostshare, refDoc.planCostSharesId))
     /\ \A i \in 1..Len(refDoc.linkedPlanServiceIds) :
          Has(s, k(NS.planservice, refDoc.linkedPlanServiceIds[i]))

C32_PatchOverwritesForeignEntry ==
  [][\A p \in Procs : LET l == proc[p] IN
       /\ (l.pc = "l_exists" /\ Served(p))
            => proc'[p].pc = "l_ps_new" /\ store' = store
       /\ (l.pc \in {"l_svc", "l_mc", "l_ps_new"} /\ Served(p))
            => LET key == k(PutOf(l).ns, PutOf(l).id) IN
               /\ getData(store', key).data = PutOf(l).data
               /\ l.pc = "l_ps_new"
                    => /\ PutOf(l).data = Head(l.pq)
                       /\ ~InSeq(Head(l.pq).objectId, l.ref.linkedPlanServiceIds)
                       /\ proc'[p].pc # "done"
                            => InSeq(Head(l.pq).objectId,
                                     proc'[p].ref.linkedPlanServiceIds
                                       \o proc'[p].newIdsToAppend)
       /\ (l.verb = "PATCH" /\ l.body.planCostShares = NullLeaf
             /\ proc'[p].pc = "done")
            => proc'[p].resp.status # 409
       /\ (l.verb = "PATCH" /\ proc'[p].pc = "done" /\ proc'[p].resp.status = 200)
            => \A i \in 1..Len(l.body.linkedPlanServices) :
                 InSeq(l.body.linkedPlanServices[i].objectId,
                       getData(store', PlanKey(l)).data.linkedPlanServiceIds)]_vars

\* Plan p2 lists entry b; a patch of p1, whose list lacked b, has replaced
\* the stored entry, its service and its cost share and now lists b too.
C32_Witness ==
  \E p \in Procs : LET l == proc[p] IN
    /\ Done(p) /\ l.verb = "PATCH" /\ l.id = "p1" /\ l.resp.status = 200
    /\ l.body.linkedPlanServices = <<Ent("b", 2)>>
    /\ {k(NS.planservice, "b"), k(NS.service, "b"), k(NS.membercostshare, "b")}
         \subseteq l.changed
    /\ getData(store, k(NS.plan, "p1")).data.linkedPlanServiceIds = <<"b">>
    /\ Has(store, k(NS.plan, "p2"))
    /\ getData(store, k(NS.plan, "p2")).data.linkedPlanServiceIds = <<"b">>
    /\ DocumentOf(store, "p2").linkedPlanServices = <<Ent("b", 2)>>

\* C33: the reference stored for plan id X has objectId X; a replace whose
\* body names another objectId is refused (400, or 404 or 412 before that)
\* and has put nothing; and the document a patch answers 200 with has the
\* objectId of its path.
C33_ReferenceIdIsKey ==
  /\ \A id \in PlanIds :
       Has(store, k(NS.plan, id))
         => getData(store, k(NS.plan, id)).data.objectId = id
  /\ \A p \in Procs : LET l == proc[p] IN
       /\ (Done(p) /\ l.verb = "PUT" /\ NoThrow(l) /\ l.body.objectId # l.id)
            => /\ l.resp.status \in {400, 404, 412}
               /\ l.wrote = {}
               /\ (l.had0 /\ l.ifm = <<Quote(l.tok0[1])>>) => l.resp.status = 400
       /\ (Done(p) /\ l.verb = "PATCH" /\ l.resp.status = 200)
            => l.resp.body.objectId = l.id

C33_Witness ==
  \E p \in Procs : LET l == proc[p] IN
    /\ Done(p) /\ l.verb = "PUT" /\ l.id = "p1" /\ l.body.objectId = "p2"
    /\ completeValidation(l.body)
    /\ l.resp.status = 400 /\ l.resp.error = "Invalid objectId"
    /\ l.wrote = {}
    /\ getData(store, k(NS.plan, "p1")).data.objectId = "p1"

\* C34: the document in the body of a create answered 201, or of a replace
\* or patch answered 200, is the document the plan materializes to in the
\* store the request leaves, which is what the GET served next returns.
C34_WriteBodyIsNextRead ==
  \A p \in Procs : LET l == proc[p] IN
    (Done(p) /\ l.verb \in {"POST", "PUT", "PATCH"} /\ l.resp.status \in {200, 201})
      => l.resp.body = DocumentOf(store, l.id)

C34_PutBodyIsNextRead ==
  \A p \in Procs : LET l == proc[p] IN
    (Done(p) /\ l.verb = "PUT" /\ l.resp.status = 200)

\* The entity stored under the id of leaf in namespace ns when there is one,
\* else the leaf itself; and the token that entity adds to the fold.
Canonical(s, ns, leaf) ==
  IF leaf.objectId # "" /\ Has(s, k(ns, leaf.objectId))
  THEN getData(s, k(ns, leaf.objectId)).data ELSE leaf

CanonicalToken(s, ns, leaf) ==
  IF leaf.objectId # "" /\ Has(s, k(ns, leaf.objectId))
  THEN <<getData(s, k(ns, leaf.objectId)).etag>> ELSE <<>>

\* The tokens the entries of ids add: per stored planservice entity its own
\* token, then that of its service and of its cost share where stored.
RECURSIVE EntryTokens(_, _)
EntryTokens(s, ids) ==
  IF ids = <<>> THEN <<>>
  ELSE LET key == k(NS.planservice, Head(ids)) IN
       IF ~Has(s, key) THEN EntryTokens(s, Tail(ids))
       ELSE LET ps == getData(s, key) IN
            <<ps.etag>>
              \o CanonicalToken(s, NS.service, ps.data.linkedService)
              \o CanonicalToken(s, NS.membercostshare, ps.data.planserviceCostShares)
              \o EntryTokens(s, Tail(ids))

\* C35: in the document of a GET answered 200 every entry's linkedService
\* and planserviceCostShares are the content of the entity stored under
\* that id when it is stored, and the copy embedded in the planservice
\* entity when it is not; the ETag folds the reference with the token of
\* every entity found and nothing for one that is missing.
C35_CanonicalOverEmbedded ==
  \A p \in Procs : LET l == proc[p] IN
    (Done(p) /\ l.verb = "GET" /\ l.resp.status = 200)
      => LET ref == getData(store, PlanKey(l))
             out == l.resp.body.linkedPlanServices
             pcs == CanonicalToken(store, NS.membercostshare,
                                   [NullLeaf EXCEPT !.objectId = ref.data.planCostSharesId])
         IN /\ \A i \in 1..Len(out) :
                 LET ps == getData(store, k(NS.planservice, out[i].objectId)).data
                 IN /\ out[i].linkedService
                         = Canonical(store, NS.service, ps.linkedService)
                    /\ out[i].planserviceCostShares
                         = Canonical(store, NS.membercostshare, ps.planserviceCostShares)
            /\ l.resp.etag
                 = <<Quote(computeCompositePlanETag(ref.data,
                       <<ref.etag>> \o pcs
                         \o EntryTokens(store, ref.data.linkedPlanServiceIds)))>>

C35_Witness ==
  \E p \in Procs : LET l == proc[p] IN
    /\ Done(p) /\ l.verb = "GET" /\ l.resp.status = 200
    /\ EntryIds(l.resp.body.linkedPlanServices) = <<"b", "c">>
    /\ getData(store, k(NS.planservice, "b")).data.linkedService = Svc("b", 1)
    /\ l.resp.body.linkedPlanServices[1].linkedService = Svc("b", 2)
    /\ ~Has(store, k(NS.membercostshare, "b"))
    /\ l.resp.body.linkedPlanServices[1].planserviceCostShares = Mcs("b", 1)
    /\ ~Has(store, k(NS.service, "c"))
    /\ l.resp.body.linkedPlanServices[2].linkedService = Svc("c", 1)
    /\ l.resp.body.linkedPlanServices[2].planserviceCostShares = Mcs("c", 2)

\* C36: a GET answered 200 that overlaps a replace or patch of the same plan
\* answered 200 carries either the token the plan had when the writer
\* arrived, or the token and the document of the plan as the writer left
\* it; it never carries a mixture of the two.
C36_NoTornRead ==
  \A p, q \in Procs :
    LET l == proc[p]  w == proc[q] IN
      (/\ Overlap(p, q) /\ Done(p) /\ Done(q)
       /\ l.verb = "GET" /\ l.resp.status = 200
       /\ IsWrite(w) /\ w.id = l.id /\ w.resp.status = 200
       /\ w.quiet /\ w.expected = w.tok0)
        => \/ l.resp.etag = <<Quote(w.tok0[1])>>
           \/ /\ l.resp.etag = <<Quote(CompositeOf(store, l.id))>>
              /\ l.resp.body = DocumentOf(store, l.id)

\* C37: a replace answered 200 whose body is the document the plan
\* materialized to when it arrived returns the composite token the plan had
\* then; and a replace answered 200 that follows a replace of the same plan
\* with the same body, presenting the token that one returned, returns that
\* token again.
C37_ReplaceIdempotentOnToken ==
  \A p \in Procs : LET l == proc[p] IN
    (Done(p) /\ l.verb = "PUT" /\ l.resp.status = 200)
      => /\ l.same0 => l.resp.etag = <<Quote(l.tok0[1])>>
         /\ (/\ l.prev.verb = "PUT" /\ l.prev.id = l.id
             /\ l.prev.body = l.body /\ l.ifm = l.prev.etag)
              => l.resp.etag = l.prev.etag

\* The second half alone: the same body replaced twice in a row, the second
\* time under the token of the first, is answered with that token.
C37_RepeatedReplaceSameToken ==
  \A p \in Procs : LET l == proc[p] IN
    (/\ Done(p) /\ l.verb = "PUT" /\ l.resp.status = 200
     /\ l.prev.verb = "PUT" /\ l.prev.id = l.id
     /\ l.prev.body = l.body /\ l.ifm = l.prev.etag)
      => l.resp.etag = l.prev.etag

C37_RepeatedWitness ==
  \E p \in Procs : LET l == proc[p] IN
    /\ Done(p) /\ l.verb = "PUT" /\ l.resp.status = 200
    /\ l.prev.verb = "PUT" /\ l.prev.id = l.id
    /\ l.prev.body = l.body /\ l.ifm = l.prev.etag
    /\ l.changed = {} /\ l.wrote # {}
    /\ l.resp.etag = l.prev.etag
====
